---- MODULE Spec2Model ----
(***************************************************************************)
(* A model of the frame distribution, collection and playout code of       *)
(* distributor.py (class Distributor) as driven by ffmpeg_app.py, and of   *)
(* the worker loop of worker.py.                                           *)
(*                                                                         *)
(* Four threads share one Distributor object and no lock:                  *)
(*   producer   read_frames -> add_frame_for_distribution                  *)
(*   server     handle_distribute_requests (fan-out, ROUTER socket)        *)
(*   collector  check_inverter_output (PULL socket) -> cleanup_old_frames  *)
(*   renderer   on_draw -> update_display_frame -> get_frame_to_display    *)
(* A worker is a process of its own (Worker.start, or InverterServer.start *)
(* of inverter.py) that talks to the server through its DEALER socket.     *)
(* Each thread is modelled as a small program counter; one action is one   *)
(* access to the shared state, so that the interleavings the interpreter   *)
(* can produce between two such accesses are behaviours of the model.      *)
(*                                                                         *)
(* A frame payload is opaque to the code; it is represented by the index   *)
(* of the frame it belongs to, and so is the capture timestamp of a frame. *)
(* The worker's clock readings are small naturals.                         *)
(*                                                                         *)
(* The subsystems are checked by specifications of their own over the same *)
(* variables: SpecPlayout, SpecBacklog, SpecInOrder, SpecSequential,       *)
(* SpecLookup, SpecNoWorker (buffer and playout clock), SpecFanout,        *)
(* SpecFanoutFair, SpecQueue, SpecSlot (capture queue and fan-out),        *)
(* SpecTrace (the trace log), SpecWorker, SpecWorkerFair (worker loop and  *)
(* its shutdown), SpecCover (server and worker, both fair), SpecPrompt     *)
(* (submits with any prompt argument), SpecVariants (a Worker and an       *)
(* InverterServer) and SpecStop (the end of the two distributor loops      *)
(* after stop).                                                            *)
(***************************************************************************)
EXTENDS Integers, Sequences, FiniteSets, TLC

VARIABLES
    \* ---- Distributor fields ----
    frame_queue,            \* queue.Queue(maxsize=10): sequence of frame_data
    frame_index_counter,    \* next index to assign
    last_frame_sent,        \* watermark of the fan-out socket
    current_frame_data,     \* the frame the server serves, NoData before the first drain
    received_frames,        \* dict index -> entry (the reorder buffer)
    current_display_frame,
    latest_received_frame,
    frame_delay,            \* constructor argument, fixed for a run
    enable_trace_export,    \* constructor argument, fixed for a run
    frame_timings,          \* the trace log: list of events
    running,                \* self.running of the Distributor
    raised,                 \* the loops in which an exception has ended an iteration,
                            \* each with the value of running then (history)
    \* ---- producer thread (add_frame_for_distribution) ----
    p_pc,                   \* "idle" | "full" | "retry" | "raised"
    p_frame,                \* the frame_data local of the call in progress
    submit_calls,           \* number of calls made so far (history)
    prompt_of,              \* index -> the prompt argument of the call that assigned it
                            \* (history)
    p_outcome,              \* how the last finished call ended (history): "enqueued" |
                            \* "replaced" | "dropped" | "raised"; "none" before the first
    \* ---- server thread (handle_distribute_requests) ----
    s_pc,                   \* "drain" | "poll"
    ready,                  \* per client: READY messages waiting at the ROUTER socket
    sent,                   \* per client: indices delivered, in order (history)
    sent_prompts,           \* per client: the prompt part of each response of sent
                            \* (history)
    unfinished,             \* the ROUTER socket holds parts sent with SNDMORE of a
                            \* message whose last part was never sent
    last_reply,             \* the last READY handled (history): its client, the index of
                            \* current_frame_data then, and "sent" | "again" | "ignored"
                            \* | "raised"
    \* ---- collector thread (check_inverter_output) ----
    c_pc,                   \* "poll" | "latest" | "scan" | "purge" | "limit"
    frame_index_int,        \* local of the ingest in progress
    frames_to_remove,       \* local of cleanup_old_frames
    max_admitted,           \* largest index ever stored in the buffer, -1 before the
                            \* first (history)
    \* ---- renderer thread (on_draw) ----
    r_pc,                   \* "idle" | "t_target" | "t_assign" | "t_elif" | "t_warm"
                            \* | "t_warmset" | "get" | "g_read" | "error"
    target_frame,           \* local of update_display_frame
    g_key,                  \* key get_frame_to_display is about to read
    displayed,              \* last value returned by get_frame_to_display
    ingest_since_draw,      \* an ingest has completed since the last on_draw returned (history)
    \* ---- one worker process (worker.py, Worker.start), client WorkerClient ----
    w_pc,                   \* "start" | "ready" (the loop test) | "announce" | "poll"
                            \* | "transform" | "send" | "stopped"
    w_running,              \* self.running of the worker
    shutdown_requested,     \* self.shutdown_requested: a signal has been handled
    frame_index_batch,      \* local list of Worker.start
    frame_bytes_batch,      \* local list of Worker.start
    w_taken,                \* responses the worker has read from its DEALER socket
    w_prompt,               \* local prompt of Worker.start
    pushed,                 \* indices pushed on the collect socket, in order (history)
    w_failed,               \* payloads that were pending when a transform raised (history)
    w_now,                  \* the last reading of the worker's clock, time.time()
    start_time,             \* local of Worker.start
    end_time,               \* local of Worker.start
    pushed_times,           \* the (start_time, end_time) pushed with each index of
                            \* pushed (history)
    w_push_failed,          \* indices of the batches in whose send loop a push raised
                            \* (history)
    \* ---- one inverter process (inverter.py, InverterServer.start), client
    \* ---- InverterClient ----
    inv_pc,                 \* "announce" | "poll"
    inv_pos,                \* message parts the inverter has read from its DEALER socket
    inv_frame_index,        \* local frame_index: the part last read into it
    inv_pushed              \* the frame_index parts pushed on the collect socket (history)

vars == << frame_queue, frame_index_counter, last_frame_sent, current_frame_data,
           received_frames, current_display_frame, latest_received_frame, frame_delay,
           enable_trace_export, frame_timings, running, raised,
           p_pc, p_frame, submit_calls, p_outcome, s_pc, ready, sent, last_reply,
           c_pc, frame_index_int, frames_to_remove, max_admitted,
           r_pc, target_frame, g_key, displayed, ingest_since_draw,
           w_pc, frame_index_batch, frame_bytes_batch, w_taken, pushed, w_failed,
           w_now, start_time, end_time, pushed_times, w_push_failed,
           w_running, shutdown_requested,
           prompt_of, sent_prompts, unfinished, w_prompt,
           inv_pc, inv_pos, inv_frame_index, inv_pushed >>

producer_vars == << p_pc, p_frame, submit_calls, p_outcome, frame_index_counter,
                    prompt_of >>
server_vars == << s_pc, last_frame_sent, current_frame_data, sent, last_reply,
                  sent_prompts, unfinished >>
collector_vars == << c_pc, frame_index_int, frames_to_remove, received_frames,
                     latest_received_frame, max_admitted >>
renderer_vars == << r_pc, target_frame, g_key, displayed, current_display_frame >>
control_vars == << running, raised >>
trace_vars == << enable_trace_export, frame_timings >>
worker_vars == << w_pc, frame_index_batch, frame_bytes_batch, w_taken, pushed, w_failed,
                  w_now, start_time, end_time, pushed_times, w_push_failed,
                  w_running, shutdown_requested, w_prompt >>
inverter_vars == << inv_pc, inv_pos, inv_frame_index, inv_pushed >>
worker_flags == << w_running, shutdown_requested >>
worker_times == << w_now, start_time, end_time, pushed_times >>

----------------------------------------------------------------------------
(* Program constants *)

QueueMaxSize == 10
frame_buffer_size == 50
InitialLastFrameSent == -1
InitialLatestReceived == -1
batch_size == 2             \* Worker.__init__(..., batch_size=2)

(* Bounds of the model *)

MaxFrames == 3      \* submits in the playout and fan-out specifications
MaxDelay == 2       \* frame_delay ranges over 0..MaxDelay
MaxSubmits == 12    \* submits in the capture-queue specification
MaxReady == 2       \* READY messages one client can have waiting
MaxBatches == 2     \* batches of frames submitted in the worker specification
MaxTime == 3        \* largest reading of the worker's clock
NumClients == 2

Clients == 1..NumClients
Prompts == {"a"}
NoPrompt == "None"      \* the default of the prompt argument: prompt=None
Garbled == "garbled"    \* a response that begins with the parts of an unfinished message
NoData == [frame_index |-> -1, prompt |-> "none"]
NoReply == [client |-> 0, frame_index |-> -1, outcome |-> "none"]
NoPart == [kind |-> "none", frame |-> -1]
NoFrame == -1       \* get_frame_to_display returning None

\* self.received_frames = {}
EmptyBuffer == [k \in {} |-> [frame_data |-> NoFrame]]

Max(a, b) == IF a >= b THEN a ELSE b
Abs(x) == IF x >= 0 THEN x ELSE -x
Range(seq) == {seq[i] : i \in 1..Len(seq)}

\* Worker.__init__: self.running = False; self.shutdown_requested = False.  The
\* batch lists are locals of start, created empty.
WorkerInit ==
    /\ w_pc = "start"
    /\ w_running = FALSE
    /\ shutdown_requested = FALSE
    /\ frame_index_batch = << >>
    /\ frame_bytes_batch = << >>
    /\ w_taken = 0
    /\ pushed = << >>
    /\ w_failed = {}
    /\ w_now = 0
    /\ start_time = 0
    /\ end_time = 0
    /\ pushed_times = << >>
    /\ w_push_failed = {}
    /\ w_prompt = NoPrompt

\* InverterServer.__init__ and the first statements of start
InverterInit ==
    /\ inv_pc = "announce"
    /\ inv_pos = 0
    /\ inv_frame_index = NoPart
    /\ inv_pushed = << >>

----------------------------------------------------------------------------
(* The Distributor after __init__ and start(): running is True and both    *)
(* loops are at the top of their first iteration.  Started says all but    *)
(* the two constructor arguments.                                          *)

Started ==
    /\ frame_queue = << >>
    /\ frame_index_counter = 0
    /\ last_frame_sent = InitialLastFrameSent
    /\ current_frame_data = NoData
    /\ received_frames = EmptyBuffer
    /\ current_display_frame = 0
    /\ latest_received_frame = InitialLatestReceived
    /\ frame_timings = << >>
    /\ running = TRUE
    /\ raised = {}
    /\ p_pc = "idle"
    /\ p_frame = NoData
    /\ submit_calls = 0
    /\ prompt_of = << >>
    /\ p_outcome = "none"
    /\ s_pc = "drain"
    /\ ready = [c \in Clients |-> 0]
    /\ sent = [c \in Clients |-> << >>]
    /\ sent_prompts = [c \in Clients |-> << >>]
    /\ unfinished = FALSE
    /\ last_reply = NoReply
    /\ c_pc = "poll"
    /\ frame_index_int = -1
    /\ frames_to_remove = {}
    /\ max_admitted = -1
    /\ r_pc = "idle"
    /\ target_frame = 0
    /\ g_key = 0
    /\ displayed = NoFrame
    /\ ingest_since_draw = FALSE
    /\ WorkerInit
    /\ InverterInit

\* Distributor(frame_delay=...), tracing left at its default:
\* __init__(..., frame_delay=5, enable_trace_export=False)
Init ==
    /\ Started
    /\ frame_delay \in 0..MaxDelay
    /\ enable_trace_export = FALSE

----------------------------------------------------------------------------
(* The reorder buffer: a dict from index to entry. *)

Keys(buffer) == DOMAIN buffer

\* self.received_frames[frame_index_int] = {'frame_data': inverted_data, ...}
Store(buffer, k, data) ==
    [x \in Keys(buffer) \cup {k} |-> IF x = k THEN [frame_data |-> data] ELSE buffer[x]]

\* for frame_index in frames_to_remove: del self.received_frames[frame_index]
Delete(buffer, ks) == [x \in Keys(buffer) \ ks |-> buffer[x]]

\* (the n largest elements of a set of indices)
RECURSIVE Largest(_, _)
Largest(S, n) ==
    IF n <= 0 \/ S = {} THEN {}
    ELSE LET m == CHOOSE x \in S : \A y \in S : x >= y
         IN  {m} \cup Largest(S \ {m}, n - 1)

\* the n smallest elements of a set of indices: sorted(...)[:n]
RECURSIVE Smallest(_, _)
Smallest(S, n) ==
    IF n <= 0 \/ S = {} THEN {}
    ELSE LET m == CHOOSE x \in S : \A y \in S : x <= y
         IN  {m} \cup Smallest(S \ {m}, n - 1)

----------------------------------------------------------------------------
(* Producer: add_frame_for_distribution, called by read_frames.            *)

NextIndexCounterStuck(counter) == counter

\* self.frame_index_counter += 1
NextIndexCounter(counter) == counter + 1

\* log_frame_timing: nothing if tracing is disabled, else an instant event is
\* appended to frame_timings.
LogInstant(timings, enabled, frame_index, timestamp) ==
    IF enabled
    THEN Append(timings, [frame_index |-> frame_index, event_type |-> "frame_captured",
                          event_ph |-> "i", times |-> << timestamp >>])
    ELSE timings

\* log_frame_complete_timing: nothing if tracing is disabled, else a complete
\* event is appended to frame_timings.
LogComplete(timings, enabled, frame_index, t_begin, t_end) ==
    IF enabled
    THEN Append(timings, [frame_index |-> frame_index,
                          event_type |-> "frame_inverted_received",
                          event_ph |-> "X", times |-> << t_begin, t_end >>])
    ELSE timings

\* frame_index = counter; counter += 1; frame_data = {...}; put_nowait(frame_data).
\* put_nowait either enqueues, and then log_frame_timing(frame_index, timestamp,
\* "frame_captured") is called, or raises queue.Full, which takes the call to its
\* except clause.  The timestamp of a call is represented by the index it assigns.
SubmitWith(max, prompts) ==
    /\ p_pc = "idle"
    /\ submit_calls < max
    /\ \E prompt \in prompts :
         LET frame_data == [frame_index |-> frame_index_counter, prompt |-> prompt]
         IN  /\ p_frame' = frame_data
             /\ prompt_of' = [k \in 0..frame_index_counter |->
                                IF k = frame_index_counter THEN prompt ELSE prompt_of[k]]
             /\ frame_index_counter' = NextIndexCounter(frame_index_counter)
             /\ submit_calls' = submit_calls + 1
             /\ IF Len(frame_queue) < QueueMaxSize
                THEN /\ frame_queue' = Append(frame_queue, frame_data)
                     /\ frame_timings' =
                          LogInstant(frame_timings, enable_trace_export,
                                     frame_index_counter, frame_index_counter)
                     /\ p_pc' = "idle"
                     /\ p_outcome' = "enqueued"
                ELSE /\ frame_queue' = frame_queue
                     /\ frame_timings' = frame_timings
                     /\ p_pc' = "full"
                     /\ p_outcome' = p_outcome
    /\ UNCHANGED << server_vars, ready, collector_vars, renderer_vars, frame_delay, inverter_vars,
                    control_vars, enable_trace_export,
                    worker_vars, ingest_since_draw >>

\* The call as read_frames makes it (ffmpeg_app.py:204-205): the prompt is one of
\* the strings of get_current_prompt.
SubmitPut(max) == SubmitWith(max, Prompts)

\* except queue.Full:  _ = self.frame_queue.get_nowait()
\* get_nowait raises queue.Empty on an empty queue; no clause of the call catches
\* it, so it leaves add_frame_for_distribution and ends the capture loop.
SubmitEvict ==
    /\ p_pc = "full"
    /\ IF frame_queue # << >>
       THEN /\ frame_queue' = Tail(frame_queue)
            /\ p_pc' = "retry"
            /\ p_outcome' = p_outcome
       ELSE /\ frame_queue' = frame_queue
            /\ p_pc' = "raised"
            /\ p_outcome' = "raised"
    /\ UNCHANGED << p_frame, submit_calls, prompt_of, frame_index_counter, server_vars, ready,
                    collector_vars, renderer_vars, frame_delay, inverter_vars,
                    control_vars, trace_vars,
                    worker_vars, ingest_since_draw >>

\* self.frame_queue.put_nowait(frame_data)  (the retry); on queue.Full the frame
\* is dropped with a message.
SubmitRetry ==
    /\ p_pc = "retry"
    /\ IF Len(frame_queue) < QueueMaxSize
       THEN /\ frame_queue' = Append(frame_queue, p_frame)
            /\ p_outcome' = "replaced"
       ELSE /\ frame_queue' = frame_queue
            /\ p_outcome' = "dropped"
    /\ p_pc' = "idle"
    /\ UNCHANGED << p_frame, submit_calls, prompt_of, frame_index_counter, server_vars, ready,
                    collector_vars, renderer_vars, frame_delay, inverter_vars,
                    control_vars, trace_vars,
                    worker_vars, ingest_since_draw >>

----------------------------------------------------------------------------
(* Server: one iteration of handle_distribute_requests is a drain of the   *)
(* capture queue followed by a poll of the ROUTER socket.                  *)

\* (a drain that takes the newest frame of the capture queue)
ServerDrainNewest ==
    /\ s_pc = "drain"
    /\ running
    /\ IF frame_queue # << >>
       THEN /\ current_frame_data' = frame_queue[Len(frame_queue)]
            /\ frame_queue' = SubSeq(frame_queue, 1, Len(frame_queue) - 1)
       ELSE UNCHANGED << current_frame_data, frame_queue >>
    /\ s_pc' = "poll"
    /\ UNCHANGED << last_frame_sent, sent, sent_prompts, unfinished, last_reply, ready,
                    producer_vars,
                    collector_vars, renderer_vars, frame_delay, inverter_vars,
                    control_vars, trace_vars,
                    worker_vars, ingest_since_draw >>

\* (a server loop that does not test the flag: while True)
ServerDrainWhileTrue ==
    /\ s_pc = "drain"
    /\ IF frame_queue # << >>
       THEN /\ current_frame_data' = Head(frame_queue)
            /\ frame_queue' = Tail(frame_queue)
       ELSE UNCHANGED << current_frame_data, frame_queue >>
    /\ s_pc' = "poll"
    /\ UNCHANGED << last_frame_sent, sent, sent_prompts, unfinished, last_reply, ready,
                    producer_vars,
                    collector_vars, renderer_vars, frame_delay, inverter_vars,
                    control_vars, trace_vars,
                    worker_vars, ingest_since_draw >>

\* while self.running:
\*     frame_data = self.frame_queue.get_nowait(); self.current_frame_data = {...}
\*     except queue.Empty: pass
ServerDrain ==
    /\ s_pc = "drain"
    /\ running
    /\ IF frame_queue # << >>
       THEN /\ current_frame_data' = Head(frame_queue)
            /\ frame_queue' = Tail(frame_queue)
       ELSE UNCHANGED << current_frame_data, frame_queue >>
    /\ s_pc' = "poll"
    /\ UNCHANGED << last_frame_sent, sent, sent_prompts, unfinished, last_reply, ready,
                    producer_vars,
                    collector_vars, renderer_vars, frame_delay, inverter_vars,
                    control_vars, trace_vars,
                    worker_vars, ingest_since_draw >>

\* self.distribute_socket.poll(10) finds no message: the iteration ends.
ServerPollTimeout ==
    /\ s_pc = "poll"
    /\ \A c \in Clients : ready[c] = 0
    /\ s_pc' = "drain"
    /\ UNCHANGED << last_frame_sent, current_frame_data, sent, sent_prompts, unfinished,
                    last_reply, ready, frame_queue,
                    producer_vars, collector_vars, renderer_vars, frame_delay, inverter_vars,
                    control_vars, trace_vars,
                    worker_vars, ingest_since_draw >>

Reply(c, outcome) ==
    [client |-> c, frame_index |-> current_frame_data.frame_index, outcome |-> outcome]

IsNewFrameOrSame(frame_index, last_sent) == frame_index >= last_sent

\* if self.current_frame_data['frame_index'] > self.last_frame_sent:
IsNewFrame(frame_index, last_sent) == frame_index > last_sent

WatermarkNotAdvanced(frame_index, last_sent) == last_sent

\* self.last_frame_sent = self.current_frame_data['frame_index']
WatermarkAfterSend(frame_index, last_sent) == frame_index

\* The prompt part of the response client c reads when the server has sent the
\* four parts of a frame: the frame's prompt, unless the socket held the parts
\* of an unfinished message, which then come first in what c receives.
DeliveredPrompts(c, prompt) ==
    [sent_prompts EXCEPT ![c] = Append(@, IF unfinished THEN Garbled ELSE prompt)]

\* (a server that pushes the current frame to client c without a READY of c)
ServerPush(c, send_ok) ==
    /\ s_pc = "poll"
    /\ IF /\ current_frame_data # NoData
          /\ IsNewFrame(current_frame_data.frame_index, last_frame_sent)
          /\ send_ok
       THEN /\ sent' = [sent EXCEPT ![c] = Append(@, current_frame_data.frame_index)]
            /\ sent_prompts' = DeliveredPrompts(c, current_frame_data.prompt)
            /\ unfinished' = FALSE
            /\ last_frame_sent' =
                 WatermarkAfterSend(current_frame_data.frame_index, last_frame_sent)
            /\ last_reply' = Reply(c, "sent")
       ELSE UNCHANGED << sent, sent_prompts, unfinished, last_frame_sent, last_reply >>
    /\ s_pc' = "drain"
    /\ UNCHANGED << ready, current_frame_data, frame_queue, producer_vars, collector_vars,
                    renderer_vars, frame_delay, inverter_vars,
                    control_vars, trace_vars, worker_vars, ingest_since_draw >>

\* (a server that answers a READY with the newest frame waiting in the capture
\* queue, and keeps no watermark)
ServerReadyNewestQueued(c, send_ok) ==
    /\ s_pc = "poll"
    /\ ready[c] > 0
    /\ ready' = [ready EXCEPT ![c] = @ - 1]
    /\ IF frame_queue # << >> /\ send_ok
       THEN /\ sent' = [sent EXCEPT ![c] =
                          Append(@, frame_queue[Len(frame_queue)].frame_index)]
            /\ sent_prompts' = DeliveredPrompts(c, frame_queue[Len(frame_queue)].prompt)
            /\ unfinished' = FALSE
            /\ frame_queue' = SubSeq(frame_queue, 1, Len(frame_queue) - 1)
            /\ last_reply' = Reply(c, "sent")
       ELSE /\ UNCHANGED << sent, sent_prompts, unfinished, frame_queue >>
            /\ last_reply' = Reply(c, "ignored")
    /\ s_pc' = "drain"
    /\ UNCHANGED << last_frame_sent, current_frame_data, producer_vars, collector_vars,
                    renderer_vars, frame_delay, inverter_vars,
                    control_vars, trace_vars, worker_vars, ingest_since_draw >>

\* (a server that raises the watermark although the send would block)
ServerReadyAdvancesWhenBlocked(c, send_ok) ==
    /\ s_pc = "poll"
    /\ ready[c] > 0
    /\ ready' = [ready EXCEPT ![c] = @ - 1]
    /\ IF /\ current_frame_data # NoData
          /\ IsNewFrame(current_frame_data.frame_index, last_frame_sent)
       THEN /\ sent' = IF send_ok
                       THEN [sent EXCEPT ![c] = Append(@, current_frame_data.frame_index)]
                       ELSE sent
            /\ sent_prompts' = IF send_ok
                               THEN DeliveredPrompts(c, current_frame_data.prompt)
                               ELSE sent_prompts
            /\ unfinished' = unfinished
            /\ last_frame_sent' =
                 WatermarkAfterSend(current_frame_data.frame_index, last_frame_sent)
            /\ last_reply' = Reply(c, IF send_ok THEN "sent" ELSE "again")
       ELSE /\ UNCHANGED << sent, sent_prompts, unfinished, last_frame_sent >>
            /\ last_reply' = Reply(c, "ignored")
    /\ s_pc' = "drain"
    /\ UNCHANGED << current_frame_data, frame_queue, producer_vars, collector_vars,
                    renderer_vars, frame_delay, inverter_vars,
                    control_vars, trace_vars, worker_vars, ingest_since_draw >>

\* (a server that answers every READY with the current frame, whatever the
\* watermark)
ServerReadyRepeatsFrame(c, send_ok) ==
    /\ s_pc = "poll"
    /\ ready[c] > 0
    /\ ready' = [ready EXCEPT ![c] = @ - 1]
    /\ IF current_frame_data # NoData /\ send_ok
       THEN /\ sent' = [sent EXCEPT ![c] = Append(@, current_frame_data.frame_index)]
            /\ sent_prompts' = DeliveredPrompts(c, current_frame_data.prompt)
            /\ unfinished' = FALSE
            /\ last_frame_sent' =
                 WatermarkAfterSend(current_frame_data.frame_index, last_frame_sent)
            /\ last_reply' = Reply(c, "sent")
       ELSE /\ UNCHANGED << sent, sent_prompts, unfinished, last_frame_sent >>
            /\ last_reply' = Reply(c, "ignored")
    /\ s_pc' = "drain"
    /\ UNCHANGED << current_frame_data, frame_queue, producer_vars, collector_vars,
                    renderer_vars, frame_delay, inverter_vars,
                    control_vars, trace_vars, worker_vars, ingest_since_draw >>

\* A READY of client c is received.  If there is a current frame newer than the
\* watermark, the four-part message is sent to c and the watermark is raised;
\* when the send raises zmq.Again (send_ok = FALSE) nothing is delivered and the
\* watermark stays.  Otherwise the READY is ignored.
\* send_string(self.current_frame_data['prompt'], zmq.SNDMORE) raises TypeError
\* when the prompt is None: the identity and the index have been sent with
\* SNDMORE by then, the exception goes to "except Exception as e: print(...);
\* continue" of the loop, and the watermark is not raised.
ServerReady(c, send_ok) ==
    /\ s_pc = "poll"
    /\ ready[c] > 0
    /\ ready' = [ready EXCEPT ![c] = @ - 1]
    /\ IF /\ current_frame_data # NoData
          /\ IsNewFrame(current_frame_data.frame_index, last_frame_sent)
       THEN IF current_frame_data.prompt = NoPrompt
            THEN /\ UNCHANGED << sent, sent_prompts, last_frame_sent >>
                 /\ unfinished' = TRUE
                 /\ raised' = raised \cup {<< "server", running >>}
                 /\ last_reply' = Reply(c, "raised")
            ELSE IF send_ok
            THEN /\ sent' = [sent EXCEPT ![c] = Append(@, current_frame_data.frame_index)]
                 /\ sent_prompts' = DeliveredPrompts(c, current_frame_data.prompt)
                 /\ unfinished' = FALSE
                 /\ last_frame_sent' =
                      WatermarkAfterSend(current_frame_data.frame_index, last_frame_sent)
                 /\ last_reply' = Reply(c, "sent")
                 /\ raised' = raised
            ELSE /\ UNCHANGED << sent, sent_prompts, unfinished, last_frame_sent, raised >>
                 /\ last_reply' = Reply(c, "again")
       ELSE /\ UNCHANGED << sent, sent_prompts, unfinished, last_frame_sent, raised >>
            /\ last_reply' = Reply(c, "ignored")
    /\ s_pc' = "drain"
    /\ UNCHANGED << current_frame_data, frame_queue, producer_vars, collector_vars,
                    renderer_vars, frame_delay, inverter_vars,
                    running, trace_vars,
                    worker_vars, ingest_since_draw >>

\* while self.running: the test fails and handle_distribute_requests returns.
ServerExit ==
    /\ s_pc = "drain"
    /\ ~running
    /\ s_pc' = "stopped"
    /\ UNCHANGED << last_frame_sent, current_frame_data, sent, sent_prompts, unfinished,
                    last_reply, ready, frame_queue,
                    producer_vars, collector_vars, renderer_vars, frame_delay, inverter_vars,
                    control_vars, trace_vars, worker_vars, ingest_since_draw >>

\* A call on the ROUTER socket raises inside the iteration (a transport error):
\* except Exception as e: print(...); continue
ServerError ==
    /\ s_pc = "poll"
    /\ raised' = raised \cup {<< "server", running >>}
    /\ s_pc' = "drain"
    /\ UNCHANGED << last_frame_sent, current_frame_data, sent, sent_prompts, unfinished,
                    last_reply, ready, frame_queue,
                    producer_vars, collector_vars, renderer_vars, frame_delay, inverter_vars,
                    running, trace_vars, worker_vars, ingest_since_draw >>

\* Distributor.stop: self.running = False
DistributorStop ==
    /\ running
    /\ running' = FALSE
    /\ UNCHANGED << frame_queue, producer_vars, server_vars, ready, collector_vars,
                    renderer_vars, frame_delay, inverter_vars, raised, trace_vars, worker_vars,
                    ingest_since_draw >>

Server ==
    \/ ServerDrain
    \/ ServerPollTimeout
    \/ \E c \in Clients, send_ok \in BOOLEAN : ServerReady(c, send_ok)

\* A worker client sends READY (worker.py: dealer_socket.send_string("READY")); it
\* does so again whenever its poll for a frame times out, so several READY of one
\* client can be waiting at the server.
ClientReady(c) ==
    /\ ready[c] < MaxReady
    /\ ready' = [ready EXCEPT ![c] = @ + 1]
    /\ UNCHANGED << frame_queue, producer_vars, server_vars, collector_vars,
                    renderer_vars, frame_delay, inverter_vars,
                    control_vars, trace_vars,
                    worker_vars, ingest_since_draw >>

----------------------------------------------------------------------------
(* Worker: one process running Worker.start (worker.py); it is the client  *)
(* WorkerClient of the fan-out server.  The responses the server has sent  *)
(* to it are sent[WorkerClient]; the first w_taken of them have been read. *)
(* The prompt is passed through to the transform and decides no branch.    *)

WorkerClient == 1

\* The handler of SIGINT and SIGTERM (DiffusionWorker._signal_handler), run by the
\* interpreter between two steps of the main thread:
\* if not self.shutdown_requested: self.shutdown_requested = True; self.running = False
\* It is installed by the constructor, so a signal can be handled before start.
WorkerSignal ==
    /\ w_pc # "stopped"
    /\ ~shutdown_requested
    /\ shutdown_requested' = TRUE
    /\ w_running' = FALSE
    /\ UNCHANGED << w_prompt, w_pc, frame_index_batch, frame_bytes_batch, w_taken, pushed, w_failed,
                    worker_times, w_push_failed,
                    frame_queue, ready, producer_vars, server_vars, collector_vars,
                    renderer_vars, frame_delay, inverter_vars,
                    control_vars, trace_vars, ingest_since_draw >>

\* Worker.start: self.running = True; frame_index_batch = []; frame_bytes_batch = []
WorkerStart ==
    /\ w_pc = "start"
    /\ w_running' = TRUE
    /\ frame_index_batch' = << >>
    /\ frame_bytes_batch' = << >>
    /\ w_pc' = "ready"
    /\ UNCHANGED << w_prompt, shutdown_requested, w_taken, pushed, w_failed,
                    worker_times, w_push_failed,
                    frame_queue, ready, producer_vars, server_vars, collector_vars,
                    renderer_vars, frame_delay, inverter_vars,
                    control_vars, trace_vars, ingest_since_draw >>

\* while self.running:   (start returns when the test fails)
WorkerLoopTest ==
    /\ w_pc = "ready"
    /\ w_pc' = IF w_running THEN "announce" ELSE "stopped"
    /\ UNCHANGED << w_prompt, frame_index_batch, frame_bytes_batch, w_taken, pushed, w_failed,
                    worker_times, w_push_failed, worker_flags,
                    frame_queue, ready, producer_vars, server_vars, collector_vars,
                    renderer_vars, frame_delay, inverter_vars,
                    control_vars, trace_vars, ingest_since_draw >>

\* (a worker that polls for a frame without announcing READY)
WorkerReadySilent ==
    /\ w_pc = "announce"
    /\ ready' = ready
    /\ w_pc' = "poll"
    /\ UNCHANGED << w_prompt, frame_index_batch, frame_bytes_batch, w_taken, pushed, w_failed,
                    worker_times, w_push_failed, worker_flags,
                    frame_queue, producer_vars, server_vars, collector_vars,
                    renderer_vars, frame_delay, inverter_vars,
                    control_vars, trace_vars, ingest_since_draw >>

\* self.dealer_socket.send_string("READY", zmq.NOBLOCK); on zmq.Again (the socket
\* buffer holds MaxReady messages) the loop sleeps and starts over.
WorkerReady ==
    /\ w_pc = "announce"
    /\ IF ready[WorkerClient] < MaxReady
       THEN /\ ready' = [ready EXCEPT ![WorkerClient] = @ + 1]
            /\ w_pc' = "poll"
       ELSE /\ ready' = ready
            /\ w_pc' = "ready"
    /\ UNCHANGED << w_prompt, frame_index_batch, frame_bytes_batch, w_taken, pushed, w_failed,
                    worker_times, w_push_failed, worker_flags,
                    frame_queue, producer_vars, server_vars, collector_vars,
                    renderer_vars, frame_delay, inverter_vars,
                    control_vars, trace_vars, ingest_since_draw >>

\* if self.dealer_socket.poll(10): ... finds no response within the timeout
WorkerPollTimeout ==
    /\ w_pc = "poll"
    /\ w_taken = Len(sent[WorkerClient])
    /\ w_pc' = "ready"
    /\ UNCHANGED << w_prompt, frame_index_batch, frame_bytes_batch, w_taken, pushed, w_failed,
                    worker_times, w_push_failed, worker_flags,
                    frame_queue, ready, producer_vars, server_vars, collector_vars,
                    renderer_vars, frame_delay, inverter_vars,
                    control_vars, trace_vars, ingest_since_draw >>

\* The three parts of a response are read and appended to the batch lists;
\* if len(frame_index_batch) < self.batch_size: continue
WorkerRecv ==
    /\ w_pc = "poll"
    /\ w_taken < Len(sent[WorkerClient])
    /\ LET frame_index == sent[WorkerClient][w_taken + 1]
       IN  /\ frame_index_batch' = Append(frame_index_batch, frame_index)
           /\ frame_bytes_batch' = Append(frame_bytes_batch, frame_index)
    /\ w_prompt' = sent_prompts[WorkerClient][w_taken + 1]
    /\ w_taken' = w_taken + 1
    /\ w_pc' = IF Len(frame_index_batch') < batch_size THEN "ready" ELSE "transform"
    /\ UNCHANGED << pushed, w_failed, worker_times, w_push_failed, worker_flags,
                    frame_queue, ready, producer_vars, server_vars,
                    collector_vars, renderer_vars, frame_delay, inverter_vars,
                    control_vars, trace_vars, ingest_since_draw >>

\* time.time(): a reading of the wall clock, not before the last reading
ClockReadings(last) == {t \in {last, last + 1} : t <= MaxTime}

\* start_time = time.time()
\* processed_frame_batch = self(frame_bytes_batch, prompt)
\* end_time = time.time()
\* The transform returns one processed payload per input (ok), or raises: the
\* exception is caught by "except Exception as e: print(...); continue" of the
\* loop, which does not touch the batch lists.
WorkerTransform(ok) ==
    /\ w_pc = "transform"
    /\ \E t1 \in ClockReadings(w_now) :
         /\ start_time' = t1
         /\ IF ok
            THEN /\ w_pc' = "send"
                 /\ w_failed' = w_failed
                 /\ \E t2 \in ClockReadings(t1) : end_time' = t2 /\ w_now' = t2
            ELSE /\ w_pc' = "ready"
                 /\ w_failed' = w_failed \cup
                                  {frame_bytes_batch[i] : i \in 1..Len(frame_bytes_batch)}
                 /\ end_time' = end_time
                 /\ w_now' = t1
    /\ UNCHANGED << w_prompt, frame_index_batch, frame_bytes_batch, w_taken, pushed, pushed_times,
                    w_push_failed, worker_flags,
                    frame_queue, ready, producer_vars, server_vars, collector_vars,
                    renderer_vars, frame_delay, inverter_vars,
                    control_vars, trace_vars, ingest_since_draw >>

\* (a send loop without the finally clause: a batch whose push failed is kept)
WorkerSendKeepsFailedBatch(n) ==
    /\ w_pc = "send"
    /\ pushed' = pushed \o SubSeq(frame_index_batch, 1, n)
    /\ pushed_times' = pushed_times \o [i \in 1..n |-> << start_time, end_time >>]
    /\ w_push_failed' =
         IF n < batch_size
         THEN w_push_failed \cup {frame_index_batch[i] : i \in 1..Len(frame_index_batch)}
         ELSE w_push_failed
    /\ frame_index_batch' = IF n < batch_size THEN frame_index_batch ELSE << >>
    /\ frame_bytes_batch' = IF n < batch_size THEN frame_bytes_batch ELSE << >>
    /\ w_pc' = "ready"
    /\ UNCHANGED << w_prompt, w_taken, w_failed, w_now, start_time, end_time, worker_flags,
                    frame_queue, ready, producer_vars, server_vars,
                    collector_vars, renderer_vars, frame_delay, inverter_vars,
                    control_vars, trace_vars, ingest_since_draw >>

\* for i in range(self.batch_size): send the five parts of message i
\* except zmq.Again: print(...)      finally: both batch lists = []
\* n messages are pushed before the socket would block (n = batch_size: none does).
WorkerSend(n) ==
    /\ w_pc = "send"
    /\ pushed' = pushed \o SubSeq(frame_index_batch, 1, n)
    /\ pushed_times' = pushed_times \o [i \in 1..n |-> << start_time, end_time >>]
    /\ w_push_failed' =
         IF n < batch_size
         THEN w_push_failed \cup {frame_index_batch[i] : i \in 1..Len(frame_index_batch)}
         ELSE w_push_failed
    /\ frame_index_batch' = << >>
    /\ frame_bytes_batch' = << >>
    /\ w_pc' = "ready"
    /\ UNCHANGED << w_prompt, w_taken, w_failed, w_now, start_time, end_time, worker_flags,
                    frame_queue, ready, producer_vars, server_vars,
                    collector_vars, renderer_vars, frame_delay, inverter_vars,
                    control_vars, trace_vars, ingest_since_draw >>

Worker ==
    \/ WorkerStart
    \/ WorkerLoopTest
    \/ WorkerReady
    \/ WorkerPollTimeout
    \/ WorkerRecv
    \/ \E ok \in BOOLEAN : WorkerTransform(ok)
    \/ \E n \in 0..batch_size : WorkerSend(n)

----------------------------------------------------------------------------
(* Inverter: one process running InverterServer.start (inverter.py); it is *)
(* the client InverterClient of the fan-out server.  A response the server *)
(* has sent to it is three message parts at its DEALER socket, in the order *)
(* index, prompt, payload; the first inv_pos parts of its responses have    *)
(* been read.  The process is not signalled here, so self.running stays     *)
(* True.  The prompts are strings, so no message is left unfinished.        *)

InverterClient == 2

\* the parts at the socket of client c, read or not
PartsSent(c) == 3 * Len(sent[c])

\* the k-th part sent to client c: which part of its response, and of which frame
PartAt(c, k) ==
    [kind |-> CASE (k - 1) % 3 = 0 -> "index"
                [] (k - 1) % 3 = 1 -> "prompt"
                [] OTHER -> "payload",
     frame |-> sent[c][((k - 1) \div 3) + 1]]

\* self.dealer_socket.send_string("READY", zmq.NOBLOCK); on zmq.Again (the socket
\* buffer holds MaxReady messages) the loop sleeps and starts over.
InverterReady ==
    /\ inv_pc = "announce"
    /\ IF ready[InverterClient] < MaxReady
       THEN /\ ready' = [ready EXCEPT ![InverterClient] = @ + 1]
            /\ inv_pc' = "poll"
       ELSE /\ ready' = ready
            /\ inv_pc' = inv_pc
    /\ UNCHANGED << inv_pos, inv_frame_index, inv_pushed,
                    frame_queue, producer_vars, server_vars, collector_vars,
                    renderer_vars, frame_delay, worker_vars,
                    control_vars, trace_vars, ingest_since_draw >>

\* if self.dealer_socket.poll(10): ... finds no part within the timeout
InverterPollTimeout ==
    /\ inv_pc = "poll"
    /\ inv_pos = PartsSent(InverterClient)
    /\ inv_pc' = "announce"
    /\ UNCHANGED << inv_pos, inv_frame_index, inv_pushed,
                    frame_queue, ready, producer_vars, server_vars, collector_vars,
                    renderer_vars, frame_delay, worker_vars,
                    control_vars, trace_vars, ingest_since_draw >>

\* frame_index = self.dealer_socket.recv_string(zmq.NOBLOCK)
\* frame_data = self.dealer_socket.recv(zmq.NOBLOCK)
\* frame = np.frombuffer(frame_data, dtype=np.uint8).reshape(480, 480, 3)
\* ... send the five parts of the result on the collect socket
\* Two parts are read.  recv_string raises UnicodeDecodeError on a part that is
\* not UTF-8, which only a payload can be (decodes = FALSE); recv raises
\* zmq.Again when no further part is at the socket; reshape raises ValueError
\* unless frame_data is a payload of 480 * 480 * 3 bytes (fits).  Each of them
\* ends the iteration, with the parts read so far consumed.  The push of the
\* result can fail with zmq.Again (push_ok = FALSE).
InverterRecv(decodes, fits, push_ok) ==
    /\ inv_pc = "poll"
    /\ inv_pos < PartsSent(InverterClient)
    /\ LET first == PartAt(InverterClient, inv_pos + 1)
           second == PartAt(InverterClient, inv_pos + 2)
       IN  IF first.kind = "payload" /\ ~decodes
           THEN /\ inv_pos' = inv_pos + 1
                /\ UNCHANGED << inv_frame_index, inv_pushed >>
           ELSE IF inv_pos + 1 = PartsSent(InverterClient)
           THEN /\ inv_pos' = inv_pos + 1
                /\ inv_frame_index' = first
                /\ inv_pushed' = inv_pushed
           ELSE /\ inv_pos' = inv_pos + 2
                /\ inv_frame_index' = first
                /\ inv_pushed' = IF second.kind = "payload" /\ fits /\ push_ok
                                 THEN Append(inv_pushed, first)
                                 ELSE inv_pushed
    /\ inv_pc' = "announce"
    /\ UNCHANGED << frame_queue, ready, producer_vars, server_vars, collector_vars,
                    renderer_vars, frame_delay, worker_vars,
                    control_vars, trace_vars, ingest_since_draw >>

Inverter ==
    \/ InverterReady
    \/ InverterPollTimeout
    \/ \E decodes, fits, push_ok \in BOOLEAN : InverterRecv(decodes, fits, push_ok)

----------------------------------------------------------------------------
(* Collector: one iteration of check_inverter_output, then cleanup_old_frames. *)

\* if int(frame_index) > self.frame_index_counter: drop
IsStale(index, counter) == index > counter

\* while self.running: the poll finds a message and its five parts are read; a
\* stale index is dropped, any other is logged (if tracing is enabled) and stored
\* in the buffer.  The times of the message are opaque to the distributor and
\* are represented by the index.
IngestRecv(index) ==
    /\ c_pc = "poll"
    /\ running
    /\ IF IsStale(index, frame_index_counter)
       THEN UNCHANGED << c_pc, frame_index_int, received_frames, max_admitted,
                         frame_timings >>
       ELSE /\ frame_timings' =
                 LogComplete(frame_timings, enable_trace_export, index, index, index)
            /\ frame_index_int' = index
            /\ received_frames' = Store(received_frames, index, index)
            /\ max_admitted' = Max(max_admitted, index)
            /\ c_pc' = "latest"
    /\ UNCHANGED << frames_to_remove, latest_received_frame, frame_queue, producer_vars,
                    server_vars, ready, renderer_vars, frame_delay, inverter_vars,
                    control_vars, enable_trace_export,
                    worker_vars, ingest_since_draw >>

\* (a collector that takes the index of the last frame ingested as the latest)
LatestIsLastIngested(latest, index) == index

\* max(self.latest_received_frame, frame_index_int)
LatestAfterIngest(latest, index) == Max(latest, index)

\* self.latest_received_frame = max(self.latest_received_frame, frame_index_int)
IngestLatest ==
    /\ c_pc = "latest"
    /\ latest_received_frame' = LatestAfterIngest(latest_received_frame, frame_index_int)
    /\ c_pc' = "scan"
    /\ UNCHANGED << frame_index_int, frames_to_remove, received_frames, max_admitted,
                    frame_queue,
                    producer_vars, server_vars, ready, renderer_vars, frame_delay, inverter_vars,
                    control_vars, trace_vars,
                    worker_vars, ingest_since_draw >>

\* frames_to_remove = [k for k in received_frames if k < current_display_frame]
OldFrames(buffer, display) == {k \in Keys(buffer) : k < display}

CleanupScan ==
    /\ c_pc = "scan"
    /\ frames_to_remove' = OldFrames(received_frames, current_display_frame)
    /\ c_pc' = "purge"
    /\ UNCHANGED << frame_index_int, received_frames, latest_received_frame, max_admitted,
                    frame_queue,
                    producer_vars, server_vars, ready, renderer_vars, frame_delay, inverter_vars,
                    control_vars, trace_vars,
                    worker_vars, ingest_since_draw >>

CleanupPurge ==
    /\ c_pc = "purge"
    /\ received_frames' = Delete(received_frames, frames_to_remove)
    /\ c_pc' = "limit"
    /\ UNCHANGED << frame_index_int, frames_to_remove, latest_received_frame, max_admitted,
                    frame_queue,
                    producer_vars, server_vars, ready, renderer_vars, frame_delay, inverter_vars,
                    control_vars, trace_vars,
                    worker_vars, ingest_since_draw >>

\* if len(received_frames) > frame_buffer_size: delete sorted(keys)[:len - size]
CleanupLimit ==
    /\ c_pc = "limit"
    /\ received_frames' =
         IF Cardinality(Keys(received_frames)) > frame_buffer_size
         THEN Delete(received_frames,
                     Smallest(Keys(received_frames),
                              Cardinality(Keys(received_frames)) - frame_buffer_size))
         ELSE received_frames
    /\ c_pc' = "poll"
    /\ ingest_since_draw' = TRUE
    /\ UNCHANGED << frame_index_int, frames_to_remove, latest_received_frame, max_admitted,
                    frame_queue,
                    producer_vars, server_vars, ready, renderer_vars, frame_delay, inverter_vars,
                    control_vars, trace_vars, worker_vars >>

\* while self.running: the test fails and check_inverter_output returns.
CollectorExit ==
    /\ c_pc = "poll"
    /\ ~running
    /\ c_pc' = "stopped"
    /\ UNCHANGED << frame_index_int, frames_to_remove, received_frames,
                    latest_received_frame, max_admitted, frame_queue, producer_vars,
                    server_vars, ready, renderer_vars, frame_delay, inverter_vars,
                    control_vars, trace_vars, worker_vars, ingest_since_draw >>

\* A call on the PULL socket, or the conversion of a part of the message, raises
\* inside the iteration:  except Exception as e: print(...); continue
CollectorError ==
    /\ c_pc = "poll"
    /\ running
    /\ raised' = raised \cup {<< "collector", running >>}
    /\ UNCHANGED << collector_vars, frame_queue, producer_vars,
                    server_vars, ready, renderer_vars, frame_delay, inverter_vars,
                    running, trace_vars, worker_vars, ingest_since_draw >>

Collector ==
    \/ \E index \in 0..MaxFrames : IngestRecv(index)
    \/ IngestLatest
    \/ CleanupScan
    \/ CleanupPurge
    \/ CleanupLimit

----------------------------------------------------------------------------
(* Renderer: on_draw calls update_display_frame and, when it returns True, *)
(* get_frame_to_display.                                                   *)

DelayedTargetAhead(latest, delay) == latest + delay

\* target_frame = self.latest_received_frame - self.frame_delay
DelayedTarget(latest, delay) == latest - delay

\* if self.latest_received_frame >= self.frame_delay:
TickCheck ==
    /\ r_pc = "idle"
    /\ r_pc' = IF latest_received_frame >= frame_delay THEN "t_target" ELSE "t_elif"
    /\ UNCHANGED << target_frame, g_key, displayed, current_display_frame, frame_queue,
                    producer_vars, server_vars, ready, collector_vars, frame_delay, inverter_vars,
                    control_vars, trace_vars,
                    worker_vars, ingest_since_draw >>

TickTarget ==
    /\ r_pc = "t_target"
    /\ target_frame' = DelayedTarget(latest_received_frame, frame_delay)
    /\ r_pc' = "t_assign"
    /\ UNCHANGED << g_key, displayed, current_display_frame, frame_queue,
                    producer_vars, server_vars, ready, collector_vars, frame_delay, inverter_vars,
                    control_vars, trace_vars,
                    worker_vars, ingest_since_draw >>

\* if target_frame in self.received_frames or target_frame > self.current_display_frame:
HasTargetOrBehind(target, buffer, display) == target \in Keys(buffer) \/ target > display

\* (a tick that steps the clock by one frame)
TickAssignByOne ==
    /\ r_pc = "t_assign"
    /\ current_display_frame' = current_display_frame + 1
    /\ r_pc' = "get"
    /\ UNCHANGED << target_frame, g_key, displayed, frame_queue,
                    producer_vars, server_vars, ready, collector_vars, frame_delay, inverter_vars,
                    control_vars, trace_vars,
                    worker_vars, ingest_since_draw >>

\* (a tick that advances only to a target that is in the buffer)
TickAssignOnlyIfPresent ==
    /\ r_pc = "t_assign"
    /\ current_display_frame' =
         IF target_frame \in Keys(received_frames) THEN target_frame
         ELSE current_display_frame
    /\ r_pc' = IF target_frame \in Keys(received_frames) THEN "get" ELSE "idle"
    /\ ingest_since_draw' = IF r_pc' = "idle" THEN FALSE ELSE ingest_since_draw
    /\ UNCHANGED << target_frame, g_key, displayed, frame_queue,
                    producer_vars, server_vars, ready, collector_vars, frame_delay, inverter_vars,
                    control_vars, trace_vars,
                    worker_vars >>

\* (a tick that also purges the entries below the frame it advances to)
TickAssignPurges ==
    /\ r_pc = "t_assign"
    /\ current_display_frame' = target_frame
    /\ received_frames' = Delete(received_frames, OldFrames(received_frames, target_frame))
    /\ r_pc' = "get"
    /\ UNCHANGED << target_frame, g_key, displayed, frame_queue,
                    producer_vars, server_vars, ready, c_pc, frame_index_int,
                    frames_to_remove, latest_received_frame, max_admitted, frame_delay,
                    inverter_vars,
                    control_vars, trace_vars,
                    worker_vars, ingest_since_draw >>

\* Both arms of the test assign target_frame and return True:
\*     self.current_display_frame = target_frame; return True
\* else: "Still advance to prevent getting stuck"
\*     self.current_display_frame = target_frame; return True
TickAssign ==
    /\ r_pc = "t_assign"
    /\ current_display_frame' =
         IF HasTargetOrBehind(target_frame, received_frames, current_display_frame)
         THEN target_frame
         ELSE target_frame
    /\ r_pc' = "get"
    /\ UNCHANGED << target_frame, g_key, displayed, frame_queue,
                    producer_vars, server_vars, ready, collector_vars, frame_delay, inverter_vars,
                    control_vars, trace_vars,
                    worker_vars, ingest_since_draw >>

\* (an elif test that passes before any frame has been received)
TickElifWithoutFrames ==
    /\ r_pc = "t_elif"
    /\ r_pc' = IF latest_received_frame >= InitialLatestReceived THEN "t_warm" ELSE "idle"
    /\ ingest_since_draw' = IF r_pc' = "idle" THEN FALSE ELSE ingest_since_draw
    /\ UNCHANGED << target_frame, g_key, displayed, current_display_frame, frame_queue,
                    producer_vars, server_vars, ready, collector_vars, frame_delay, inverter_vars,
                    control_vars, trace_vars,
                    worker_vars >>

\* elif self.latest_received_frame > 0:    (otherwise return False)
TickElif ==
    /\ r_pc = "t_elif"
    /\ r_pc' = IF latest_received_frame > 0 THEN "t_warm" ELSE "idle"
    /\ ingest_since_draw' = IF r_pc' = "idle" THEN FALSE ELSE ingest_since_draw
    /\ UNCHANGED << target_frame, g_key, displayed, current_display_frame, frame_queue,
                    producer_vars, server_vars, ready, collector_vars, frame_delay, inverter_vars,
                    control_vars, trace_vars,
                    worker_vars >>

\* (a warm-up test that also passes when the clock stands at the latest frame)
TickWarmCheckOrEqual ==
    /\ r_pc = "t_warm"
    /\ r_pc' = IF current_display_frame <= latest_received_frame THEN "t_warmset" ELSE "idle"
    /\ ingest_since_draw' = IF r_pc' = "idle" THEN FALSE ELSE ingest_since_draw
    /\ UNCHANGED << target_frame, g_key, displayed, current_display_frame, frame_queue,
                    producer_vars, server_vars, ready, collector_vars, frame_delay, inverter_vars,
                    control_vars, trace_vars,
                    worker_vars >>

\* if self.current_display_frame < self.latest_received_frame:  (otherwise return False)
TickWarmCheck ==
    /\ r_pc = "t_warm"
    /\ r_pc' = IF current_display_frame < latest_received_frame THEN "t_warmset" ELSE "idle"
    /\ ingest_since_draw' = IF r_pc' = "idle" THEN FALSE ELSE ingest_since_draw
    /\ UNCHANGED << target_frame, g_key, displayed, current_display_frame, frame_queue,
                    producer_vars, server_vars, ready, collector_vars, frame_delay, inverter_vars,
                    control_vars, trace_vars,
                    worker_vars >>

\* self.current_display_frame = self.latest_received_frame; return True
TickWarmSet ==
    /\ r_pc = "t_warmset"
    /\ current_display_frame' = latest_received_frame
    /\ r_pc' = "get"
    /\ UNCHANGED << target_frame, g_key, displayed, frame_queue,
                    producer_vars, server_vars, ready, collector_vars, frame_delay, inverter_vars,
                    control_vars, trace_vars,
                    worker_vars, ingest_since_draw >>

\* (the nearest key, the larger one on a tie)
ClosestLargerOnTie(keys, target) ==
    CHOOSE x \in keys :
        \A y \in keys : \/ Abs(x - target) < Abs(y - target)
                        \/ Abs(x - target) = Abs(y - target) /\ x >= y

\* min(sorted(keys), key=lambda x: abs(x - target)): the first of the nearest keys
\* in increasing order, that is the smaller one on a tie.
Closest(keys, target) ==
    CHOOSE x \in keys :
        \A y \in keys : \/ Abs(x - target) < Abs(y - target)
                        \/ Abs(x - target) = Abs(y - target) /\ x <= y

\* target_frame = self.current_display_frame
\* if target_frame in self.received_frames: (read it) ...
\* elif self.received_frames: closest_frame = min(...)  (read it) ...
\* else: return None
GetLookup ==
    /\ r_pc = "get"
    /\ IF current_display_frame \in Keys(received_frames)
       THEN /\ g_key' = current_display_frame
            /\ r_pc' = "g_read"
            /\ displayed' = displayed
       ELSE IF Keys(received_frames) # {}
       THEN /\ g_key' = Closest(Keys(received_frames), current_display_frame)
            /\ r_pc' = "g_read"
            /\ displayed' = displayed
       ELSE /\ g_key' = g_key
            /\ r_pc' = "idle"
            /\ displayed' = NoFrame
    /\ ingest_since_draw' = IF r_pc' = "idle" THEN FALSE ELSE ingest_since_draw
    /\ UNCHANGED << target_frame, current_display_frame, frame_queue,
                    producer_vars, server_vars, ready, collector_vars, frame_delay, inverter_vars,
                    control_vars, trace_vars,
                    worker_vars >>

\* return self.received_frames[key]['frame_data']; a key the collector has deleted
\* since the lookup raises KeyError out of on_draw.
GetRead ==
    /\ r_pc = "g_read"
    /\ IF g_key \in Keys(received_frames)
       THEN /\ displayed' = received_frames[g_key].frame_data
            /\ r_pc' = "idle"
       ELSE /\ displayed' = displayed
            /\ r_pc' = "error"
    /\ ingest_since_draw' = IF r_pc' = "idle" THEN FALSE ELSE ingest_since_draw
    /\ UNCHANGED << target_frame, g_key, current_display_frame, frame_queue,
                    producer_vars, server_vars, ready, collector_vars, frame_delay, inverter_vars,
                    control_vars, trace_vars,
                    worker_vars >>

Tick == TickCheck \/ TickTarget \/ TickAssign \/ TickElif \/ TickWarmCheck \/ TickWarmSet

Renderer == Tick \/ GetLookup \/ GetRead

----------------------------------------------------------------------------
(* The playout subsystem: producer, collector and renderer.  The capture   *)
(* queue is not drained here, and never fills within MaxFrames submits.    *)

NextPlayout ==
    \/ SubmitPut(MaxFrames)
    \/ Collector
    \/ Renderer

SpecPlayout == Init /\ [][NextPlayout]_vars

----------------------------------------------------------------------------
(* The fan-out subsystem: producer, server and worker clients.             *)

InitFanout == Init /\ frame_delay = 0

NextFanout ==
    \/ SubmitPut(MaxFrames)
    \/ Server
    \/ \E c \in Clients : ClientReady(c)

SpecFanout == InitFanout /\ [][NextFanout]_vars

(* The capture queue: the producer against the server's drain, with enough *)
(* submits to fill the queue (QueueMaxSize) and overflow it.               *)

NextQueue ==
    \/ SubmitPut(MaxSubmits)
    \/ SubmitEvict
    \/ SubmitRetry
    \/ ServerDrain
    \/ ServerPollTimeout

SpecQueue == InitFanout /\ [][NextQueue]_vars

(* The capture queue with the trace log: the distributor is constructed    *)
(* with enable_trace_export either way, and the producer fills and         *)
(* overflows the queue against the server's drain.                         *)

InitTrace == Started /\ frame_delay = 0 /\ enable_trace_export \in BOOLEAN

SpecTrace == InitTrace /\ [][NextQueue]_vars

(* The current frame of the server: the producer fills and overflows the   *)
(* queue while the server drains it and serves the READY messages of one   *)
(* worker client.                                                          *)

NextSlot ==
    \/ NextQueue
    \/ ClientReady(WorkerClient)
    \/ \E send_ok \in BOOLEAN : ServerReady(WorkerClient, send_ok)

SpecSlot == InitFanout /\ [][NextSlot]_vars

(* The reorder buffer near its capacity.  The threads are not synchronised, *)
(* so the renderer can be behind the collector by any number of frames; here *)
(* the first on_draw has not run yet when BacklogFrames frames, all served to *)
(* the first worker, have come back in index order and been ingested.  From  *)
(* there MaxFrames more submits and ingests take the buffer past             *)
(* frame_buffer_size.  latest_received_frame >= frame_delay in every state,  *)
(* so the warm-up arm of update_display_frame is never entered.              *)

BacklogFrames == frame_buffer_size - 2

InitBacklog ==
    LET last == [frame_index |-> BacklogFrames - 1, prompt |-> CHOOSE p \in Prompts : TRUE]
    IN  /\ frame_queue = << >>
        /\ frame_index_counter = BacklogFrames
        /\ last_frame_sent = BacklogFrames - 1
        /\ current_frame_data = last
        /\ received_frames = [k \in 0..(BacklogFrames - 1) |-> [frame_data |-> k]]
        /\ current_display_frame = 0
        /\ latest_received_frame = BacklogFrames - 1
        /\ frame_delay \in 0..MaxDelay
        /\ enable_trace_export = FALSE
        /\ frame_timings = << >>
        /\ running = TRUE
        /\ raised = {}
        /\ p_pc = "idle"
        /\ p_frame = last
        /\ submit_calls = BacklogFrames
        /\ prompt_of = [k \in 0..(BacklogFrames - 1) |-> last.prompt]
        /\ p_outcome = "enqueued"
        /\ s_pc = "drain"
        /\ ready = [c \in Clients |-> 0]
        /\ sent = [c \in Clients |->
                     IF c = 1 THEN [i \in 1..BacklogFrames |-> i - 1] ELSE << >>]
        /\ sent_prompts = [c \in Clients |->
                     IF c = 1 THEN [i \in 1..BacklogFrames |-> last.prompt] ELSE << >>]
        /\ unfinished = FALSE
        /\ last_reply = [client |-> 1, frame_index |-> BacklogFrames - 1, outcome |-> "sent"]
        /\ c_pc = "poll"
        /\ frame_index_int = BacklogFrames - 1
        /\ frames_to_remove = {}
        /\ max_admitted = BacklogFrames - 1
        /\ r_pc = "idle"
        /\ target_frame = 0
        /\ g_key = 0
        /\ displayed = NoFrame
        /\ ingest_since_draw = TRUE
        /\ w_pc = "ready"
        /\ w_running = TRUE
        /\ shutdown_requested = FALSE
        /\ frame_index_batch = << >>
        /\ frame_bytes_batch = << >>
        /\ w_taken = BacklogFrames
        /\ pushed = [i \in 1..BacklogFrames |-> i - 1]
        /\ w_failed = {}
        /\ w_now = 0
        /\ start_time = 0
        /\ end_time = 0
        /\ pushed_times = [i \in 1..BacklogFrames |-> << 0, 0 >>]
        /\ w_push_failed = {}
        /\ w_prompt = last.prompt
        /\ InverterInit

NextBacklog ==
    \/ SubmitPut(BacklogFrames + MaxFrames)
    \/ \E index \in BacklogFrames..(BacklogFrames + MaxFrames) : IngestRecv(index)
    \/ IngestLatest
    \/ CleanupScan
    \/ CleanupPurge
    \/ CleanupLimit
    \/ TickCheck
    \/ TickTarget
    \/ TickAssign
    \/ GetLookup
    \/ GetRead

SpecBacklog == InitBacklog /\ [][NextBacklog]_vars

(* One worker against the fan-out server: the producer, the server serving *)
(* the READY messages of the worker, and the worker loop.                  *)

NextWorker ==
    \/ SubmitPut(MaxBatches * batch_size)
    \/ ServerDrain
    \/ ServerPollTimeout
    \/ \E send_ok \in BOOLEAN : ServerReady(WorkerClient, send_ok)
    \/ Worker
    \/ WorkerSignal

SpecWorker == InitFanout /\ [][NextWorker]_vars

(* The worker under the scheduling the code has: the process keeps running, *)
(* every poll returns within its timeout and the transform returns, so the  *)
(* loop of Worker.start always takes its next step.                         *)

FairWorker == WF_vars(Worker)

SpecWorkerFair == SpecWorker /\ FairWorker

(* The server and a worker that is never signalled, with no send on the    *)
(* distribution socket blocking.  Both loops keep running: the poll of each *)
(* returns within its timeout and the transform returns.                   *)

ServerSending ==
    \/ ServerDrain
    \/ ServerPollTimeout
    \/ ServerReady(WorkerClient, TRUE)

NextCover ==
    \/ SubmitPut(MaxFrames)
    \/ ServerSending
    \/ Worker

FairCover == WF_vars(ServerSending) /\ WF_vars(Worker)

SpecCover == InitFanout /\ [][NextCover]_vars /\ FairCover

(* The server against one worker of each kind: a Worker and an             *)
(* InverterServer, both connected to the distribution socket.              *)

NextVariants ==
    \/ SubmitPut(MaxFrames)
    \/ ServerDrain
    \/ ServerPollTimeout
    \/ \E c \in {WorkerClient, InverterClient} : ServerReady(c, TRUE)
    \/ Worker
    \/ Inverter

SpecVariants == InitFanout /\ [][NextVariants]_vars

(* The prompt from submit to the transform: add_frame_for_distribution is  *)
(* called with one of two prompt strings or with the prompt omitted, the    *)
(* server serves the worker and no send blocks.                             *)

SubmittedPrompts == {"a", "b", NoPrompt}

NextPrompt ==
    \/ SubmitWith(MaxFrames, SubmittedPrompts)
    \/ ServerSending
    \/ Worker

SpecPrompt == InitFanout /\ [][NextPrompt]_vars

(* Playout of an undisturbed stream: the processed frames arrive in index  *)
(* order, none is lost, every ingest runs to its end before on_draw is     *)
(* called, and on_draw is called once after every ingest and runs to its   *)
(* end before the next frame arrives.                                      *)

NextArrival == latest_received_frame + 1

NextInOrder ==
    \/ SubmitPut(MaxFrames)
    \/ /\ r_pc = "idle"
       /\ ~ingest_since_draw
       /\ NextArrival < frame_index_counter
       /\ IngestRecv(NextArrival)
    \/ IngestLatest
    \/ CleanupScan
    \/ CleanupPurge
    \/ CleanupLimit
    \/ /\ c_pc = "poll"
       /\ ingest_since_draw
       /\ TickCheck
    \/ TickTarget
    \/ TickAssign
    \/ TickElif
    \/ TickWarmCheck
    \/ TickWarmSet
    \/ GetLookup
    \/ GetRead

SpecInOrder == Init /\ [][NextInOrder]_vars

(* get_frame_to_display as a function of the buffer and of                 *)
(* current_display_frame: a call is entered (r_pc = "get") on a Distributor *)
(* whose buffer holds any set of the indices 0..MaxFrames and runs to its   *)
(* end with no other thread running.  The playout clock is 0 while the      *)
(* buffer is empty (nothing was ever stored) and is nowhere beyond the      *)
(* largest index stored.                                                    *)

MaxKey(keys) == CHOOSE m \in keys : \A k \in keys : k <= m

InitLookup ==
    /\ \E keys \in SUBSET (0..MaxFrames) :
         /\ received_frames = [k \in keys |-> [frame_data |-> k]]
         /\ latest_received_frame = IF keys = {} THEN InitialLatestReceived ELSE MaxKey(keys)
         /\ frame_index_counter = IF keys = {} THEN 0 ELSE MaxKey(keys) + 1
    /\ frame_delay \in 0..MaxDelay
    /\ enable_trace_export = FALSE
    /\ frame_timings = << >>
    /\ running = TRUE
    /\ raised = {}
    /\ current_display_frame \in 0..Max(latest_received_frame, 0)
    /\ r_pc = "get"
    /\ frame_queue = << >>
    /\ last_frame_sent = InitialLastFrameSent
    /\ current_frame_data = NoData
    /\ p_pc = "idle"
    /\ p_frame = NoData
    /\ submit_calls = frame_index_counter
    /\ prompt_of = [k \in 0..(frame_index_counter - 1) |-> CHOOSE p \in Prompts : TRUE]
    /\ p_outcome = "none"
    /\ s_pc = "drain"
    /\ ready = [c \in Clients |-> 0]
    /\ sent = [c \in Clients |-> << >>]
    /\ sent_prompts = [c \in Clients |-> << >>]
    /\ unfinished = FALSE
    /\ last_reply = NoReply
    /\ c_pc = "poll"
    /\ frame_index_int = -1
    /\ frames_to_remove = {}
    /\ max_admitted = latest_received_frame
    /\ target_frame = 0
    /\ g_key = 0
    /\ displayed = NoFrame
    /\ ingest_since_draw = FALSE
    /\ WorkerInit
    /\ InverterInit

NextLookup ==
    \/ GetLookup
    \/ GetRead

SpecLookup == InitLookup /\ [][NextLookup]_vars

(* The collector and the renderer taking turns: an ingest begins only      *)
(* between two calls of on_draw and runs to its end before the next call,  *)
(* so that each handler reads and writes the shared fields undisturbed.    *)
(* Frames arrive in any order, and any number of calls of on_draw can      *)
(* follow one another.                                                     *)

NextSequential ==
    \/ SubmitPut(MaxFrames)
    \/ r_pc = "idle" /\ Collector
    \/ c_pc = "poll" /\ Renderer

SpecSequential == Init /\ [][NextSequential]_vars

(* No worker is connected: no READY reaches the server and no processed    *)
(* frame reaches the collector, whose polls time out.  The producer fills  *)
(* and overflows the capture queue, the server drains it, and on_draw      *)
(* keeps being called: with latest_received_frame at its initial value     *)
(* update_display_frame gets no further than its elif test.                *)

NextNoWorker ==
    \/ SubmitPut(MaxSubmits)
    \/ SubmitEvict
    \/ SubmitRetry
    \/ ServerDrain
    \/ ServerPollTimeout
    \/ TickCheck
    \/ TickElif

SpecNoWorker == Init /\ [][NextNoWorker]_vars

(* Shutdown of the distributor: stop() is called at any moment while the   *)
(* producer, the server loop and the collector loop are running, and calls *)
(* on the sockets can raise inside an iteration.  One worker sends READY   *)
(* and returns the frames it was sent, in any order and any number of      *)
(* times.  Both threads keep being scheduled; every call of an iteration   *)
(* returns (the polls have a timeout of 10 ms and every receive and the    *)
(* last send are non-blocking).                                            *)

NextStop ==
    \/ SubmitPut(MaxFrames)
    \/ Server
    \/ ServerError
    \/ ServerExit
    \/ ClientReady(WorkerClient)
    \/ \E index \in Range(sent[WorkerClient]) : IngestRecv(index)
    \/ IngestLatest
    \/ CleanupScan
    \/ CleanupPurge
    \/ CleanupLimit
    \/ CollectorError
    \/ CollectorExit
    \/ DistributorStop

FairStop ==
    /\ WF_vars(Server \/ ServerExit)
    /\ WF_vars(IngestLatest \/ CleanupScan \/ CleanupPurge \/ CleanupLimit \/ CollectorExit)

SpecStop == InitFanout /\ [][NextStop]_vars /\ FairStop

(* The fan-out subsystem under the scheduling the code has: the producer,  *)
(* the server loop and every worker loop keep running, the ROUTER socket   *)
(* fair-queues its clients, and a send that can succeed eventually does.   *)

FairFanout ==
    /\ WF_vars(SubmitPut(MaxFrames))
    /\ WF_vars(ServerDrain)
    /\ WF_vars(ServerPollTimeout)
    /\ \A c \in Clients : WF_vars(ClientReady(c))
    /\ \A c \in Clients : SF_vars(ServerReady(c, TRUE))

SpecFanoutFair == SpecFanout /\ FairFanout

----------------------------------------------------------------------------
(* Claims about the playout clock and the reorder buffer (SpecPlayout).    *)

\* C1: current_display_frame is monotonically non-decreasing: no step of any
\* thread lowers it, for every frame_delay >= 0, the step from the warm-up phase
\* to the delayed phase included.
DisplayFrameNeverDecreases ==
    [][current_display_frame' >= current_display_frame]_vars

\* C2: in the delayed branch of update_display_frame (latest >= delay, target =
\* latest - delay), current_display_frame is set to target only if target is in
\* the buffer or target > current_display_frame; with target absent and
\* target <= current_display_frame it is left unchanged.
TickLeavesDisplayWhenTargetAbsentAndNotAhead ==
    [][(TickAssign /\ ~HasTargetOrBehind(target_frame, received_frames,
                                         current_display_frame))
          => current_display_frame' = current_display_frame]_vars

BufferPurgedAfterIngestAndTick ==
    [][(CleanupLimit \/ TickAssign \/ TickWarmSet)
          => \A k \in Keys(received_frames') : k >= current_display_frame']_vars

\* C5: get_frame_to_display never returns the payload of a frame whose index
\* current_display_frame has passed, neither by the exact lookup nor by the
\* closest-frame fallback.
NeverReturnsPassedFrame ==
    [][(GetRead /\ r_pc' = "idle") => displayed' >= current_display_frame']_vars

\* C11: the reorder buffer never holds more than frame_buffer_size (50) entries,
\* in any reachable state, under any interleaving of the ingest with the renderer.
BufferWithinCapacity ==
    Cardinality(Keys(received_frames)) <= frame_buffer_size

\* an ingest has stored its frame and not yet finished cleanup_old_frames
IngestInProgress == c_pc # "poll"

\* C12: an ingest (insert, update of latest_received_frame, purge, capacity
\* eviction) is atomic with respect to update_display_frame and
\* get_frame_to_display: no step of the renderer is taken, and so no shared field
\* is read by it, between the insert and the end of the cleanup of one ingest.
RendererNeverObservesPartialIngest ==
    [][Renderer => ~IngestInProgress]_vars

\* C22: latest_received_frame never decreases (no step of an ingest, tick, purge
\* or eviction lowers it), and once the ingest of a frame has updated it, it is
\* the largest index ever admitted to the buffer.
LatestIsMaxAdmitted ==
    [][/\ latest_received_frame' >= latest_received_frame
       /\ c_pc' # "latest" => latest_received_frame' = max_admitted']_vars

\* C22 witness: a frame older than the latest has been ingested after the clock
\* had advanced past index 0 and entries had been purged, and
\* latest_received_frame has kept the larger index.
OlderFrameIngestedAfterLatest ==
    /\ c_pc = "poll"
    /\ frame_index_int < latest_received_frame
    /\ frame_index_int \notin Keys(received_frames)
    /\ latest_received_frame = max_admitted
    /\ current_display_frame > 0

\* the highest index add_frame_for_distribution has assigned so far (-1: none)
HighestAssigned == frame_index_counter - 1

\* C21: the ingest admits a processed frame only if its index is <= the highest
\* index assigned by a submit so far (a larger index is dropped and changes
\* nothing), hence every index in the buffer has been assigned by a submit.
IngestAdmitsOnlyAssignedIndices ==
    [][/\ (c_pc = "poll" /\ c_pc' # "poll") => frame_index_int' <= HighestAssigned
       /\ \A k \in Keys(received_frames') : k <= HighestAssigned']_vars

----------------------------------------------------------------------------
(* Claims about the fan-out server (SpecFanout, SpecFanoutFair).           *)

SentToBoth(c1, c2) == Range(sent[c1]) \cap Range(sent[c2])

\* C6, as claimed: with two workers that both keep sending READY and a server
\* that serves every READY, some index is eventually sent to two distinct clients.
SomeIndexSentToTwoClients ==
    <>(\E c1, c2 \in Clients : c1 # c2 /\ SentToBoth(c1, c2) # {})

\* C6, as the code has it: no index is ever sent to two distinct clients; the one
\* watermark last_frame_sent of the socket suppresses the second transmission.
NoIndexSentToTwoClients ==
    \A c1, c2 \in Clients : c1 # c2 => SentToBoth(c1, c2) = {}

\* C6 witness: a READY of one client was handled while current_frame_data held an
\* index already sent to another client, and was ignored.
OtherClientReadyIgnored ==
    /\ last_reply.outcome = "ignored"
    /\ \E c \in Clients : /\ c # last_reply.client
                          /\ last_reply.frame_index \in Range(sent[c])

\* C7: no index is sent twice to the same client, however many READY messages the
\* client has sent between two drains of the capture queue.
NoIndexTwiceToSameClient ==
    \A c \in Clients : Cardinality(Range(sent[c])) = Len(sent[c])

\* C7 witness: a client that already received the current index sent READY again
\* (with a further READY still waiting) and the server handled it.
SameClientReadyAgain ==
    /\ last_reply.client \in Clients
    /\ last_reply.outcome = "ignored"
    /\ last_reply.frame_index \in Range(sent[last_reply.client])
    /\ last_reply.frame_index = current_frame_data.frame_index
    /\ ready[last_reply.client] > 0
    /\ s_pc = "drain"

\* C23: on every single client socket the indices delivered by the fan-out server
\* are non-decreasing in delivery order, for any number of clients and any
\* interleaving of submits, drains of the capture queue and READY messages.
DeliveryOrderNonDecreasing ==
    \A c \in Clients :
        \A i, j \in 1..Len(sent[c]) : i < j => sent[c][i] <= sent[c][j]

\* C23 witness: a client has been sent two indices, and an index between them
\* has been sent to another client.
DeliveredAroundOtherClient ==
    \E c, d \in Clients :
        /\ c # d
        /\ Len(sent[c]) >= 2
        /\ \E i \in 1..Len(sent[d]) : sent[c][1] < sent[d][i] /\ sent[d][i] < sent[c][2]

\* C14: when the processed frames 0..N arrive in index order with no loss and a
\* tick follows every ingest, every get_frame_to_display finds exactly the index
\* current_display_frame in the buffer (never the closest-frame fallback, never
\* nothing) and returns its payload, the displayed indices increase, and when the
\* last tick has run current_display_frame is N - frame_delay.
InOrderPlayoutIsExact ==
    [][/\ GetLookup => g_key' = current_display_frame /\ r_pc' = "g_read"
       /\ GetRead => /\ displayed' = current_display_frame
                     /\ displayed' > displayed
       /\ ( /\ r_pc' = "idle" /\ c_pc' = "poll" /\ ~ingest_since_draw'
            /\ latest_received_frame' = MaxFrames - 1
            /\ latest_received_frame' >= frame_delay )
            => current_display_frame' = latest_received_frame' - frame_delay]_vars

\* C15: playout does not stall on a lost frame: in the delayed branch the target
\* is latest_received_frame - frame_delay, and when it is greater than
\* current_display_frame the tick sets current_display_frame to it and returns
\* True (get_frame_to_display is called) even if the buffer has no such index;
\* get_frame_to_display does not return None when the buffer is non-empty, and
\* what it returns from a buffer entry is a payload.
PlayoutDoesNotStallOnHole ==
    [][/\ TickTarget => target_frame' = latest_received_frame - frame_delay
       /\ (r_pc = "t_assign" /\ r_pc' # "t_assign" /\ target_frame > current_display_frame)
            => current_display_frame' = target_frame /\ r_pc' = "get"
       /\ (r_pc = "get" /\ r_pc' # "get" /\ Keys(received_frames) # {})
            => r_pc' = "g_read" /\ g_key' \in Keys(received_frames)
       /\ (r_pc = "g_read" /\ r_pc' = "idle")
            => displayed' # NoFrame /\ displayed' = received_frames[g_key].frame_data]_vars

\* C15 witness: a tick of the delayed branch has advanced to an index that is
\* not in the buffer and get_frame_to_display has returned the payload of
\* another, buffered index.
HoleCrossed ==
    /\ r_pc = "idle"
    /\ latest_received_frame >= frame_delay
    /\ current_display_frame = latest_received_frame - frame_delay
    /\ current_display_frame > 0
    /\ current_display_frame \notin Keys(received_frames)
    /\ g_key \in Keys(received_frames)
    /\ g_key # current_display_frame
    /\ displayed = received_frames[g_key].frame_data

\* C16: get_frame_to_display returns the payload stored at index
\* current_display_frame if that index is in the buffer; otherwise the payload of
\* the buffered index nearest to current_display_frame, the smaller index when two
\* are equally near; otherwise, the buffer being empty, None.
LookupReturnsExactOrClosest ==
    [][(r_pc \in {"get", "g_read"} /\ r_pc' = "idle") =>
         LET keys == Keys(received_frames)
             target == current_display_frame
         IN  IF target \in keys
             THEN displayed' = received_frames[target].frame_data
             ELSE IF keys # {}
             THEN \E k \in keys :
                    /\ displayed' = received_frames[k].frame_data
                    /\ \A y \in keys : Abs(k - target) <= Abs(y - target)
                    /\ \A y \in keys : Abs(y - target) = Abs(k - target) => k <= y
             ELSE displayed' = NoFrame]_vars

\* C16 witness: the call has returned the smaller of two indices that are
\* equally near to a current_display_frame that is not in the buffer.
TieReturnedSmaller ==
    /\ r_pc = "idle"
    /\ current_display_frame \notin Keys(received_frames)
    /\ current_display_frame - 1 \in Keys(received_frames)
    /\ current_display_frame + 1 \in Keys(received_frames)
    /\ displayed = received_frames[current_display_frame - 1].frame_data

\* the renderer is inside the arm of update_display_frame that is taken when
\* latest_received_frame < frame_delay
InWarmUpArm == r_pc \in {"t_elif", "t_warm", "t_warmset"}

\* C17: a tick with latest_received_frame < frame_delay: if latest_received_frame
\* > 0 and current_display_frame < latest_received_frame it sets
\* current_display_frame to latest_received_frame and returns True; in every other
\* case it returns False and changes nothing.
WarmUpTick ==
    [][/\ (r_pc = "idle" /\ r_pc' # "idle" /\ latest_received_frame < frame_delay)
            => r_pc' = "t_elif"
       /\ (InWarmUpArm /\ r_pc' # r_pc)
            => /\ latest_received_frame < frame_delay
               /\ UNCHANGED << latest_received_frame, received_frames >>
               /\ IF /\ latest_received_frame > 0
                     /\ current_display_frame < latest_received_frame
                  THEN /\ r_pc' \in {"t_warm", "t_warmset", "get"}
                       /\ r_pc' = "get" => current_display_frame' = latest_received_frame
                       /\ r_pc' # "get" => current_display_frame' = current_display_frame
                  ELSE /\ r_pc' \in {"t_warm", "idle"}
                       /\ current_display_frame' = current_display_frame]_vars

\* C17 witness: a warm-up tick has raised current_display_frame to a latest frame
\* that is below frame_delay and has returned True.
WarmUpAdvanced ==
    /\ r_pc = "get"
    /\ 0 < latest_received_frame
    /\ latest_received_frame < frame_delay
    /\ current_display_frame = latest_received_frame
    /\ c_pc = "poll"

\* C18: tick is idempotent when nothing arrives in between: after one call of
\* on_draw has returned, a further call with no ingest in between leaves
\* current_display_frame, latest_received_frame and the buffer unchanged.
RepeatedTickChangesNothing ==
    [][(~ingest_since_draw /\ r_pc' # r_pc)
          => UNCHANGED << current_display_frame, latest_received_frame, received_frames >>]_vars

\* C18 witness: after a call of on_draw that advanced the clock has returned, a
\* further tick has run with no ingest in between (and has returned True).
TickRepeated ==
    /\ ~ingest_since_draw
    /\ r_pc = "get"
    /\ c_pc = "poll"
    /\ current_display_frame > 0
    /\ latest_received_frame >= frame_delay

\* update_display_frame returns in this step (True: r_pc' = "get", False: "idle")
TickReturns ==
    /\ r_pc \in {"t_assign", "t_elif", "t_warm", "t_warmset"}
    /\ r_pc' \in {"get", "idle"}

\* C24: after every completed tick (in the state in which update_display_frame
\* returns) the playout clock is no further behind the latest received frame than
\* the delay: latest_received_frame - current_display_frame <= frame_delay.
ClockWithinDelayAfterTick ==
    [][TickReturns
          => latest_received_frame' - current_display_frame' <= frame_delay]_vars

----------------------------------------------------------------------------
(* Claims about the worker loop (SpecWorker).                              *)

\* C13: when the transform raises, the pending batch is discarded: the step that
\* handles the error leaves both batch lists empty, and no transform invocation
\* receives a payload that was pending when an earlier invocation raised.
TransformErrorDiscardsBatch ==
    [][/\ (w_pc = "transform" /\ w_pc' = "ready")
            => frame_index_batch' = << >> /\ frame_bytes_batch' = << >>
       /\ (w_pc = "transform" /\ w_pc' # "transform")
            => \A i \in 1..Len(frame_bytes_batch) : frame_bytes_batch[i] \notin w_failed]_vars

\* the step appends these positions to pushed
NewlyPushed == (Len(pushed) + 1)..Len(pushed')

\* C25: when a push fails in the send loop of the worker, both batch lists are
\* empty and the loop is back at its top (the next READY) when the step ends, and
\* no frame of that batch is pushed later: nothing is pushed that was in a batch
\* whose send loop failed, and nothing is pushed twice.
PushFailureDiscardsBatch ==
    [][/\ (w_pc = "send" /\ w_pc' # "send")
            => /\ frame_index_batch' = << >>
               /\ frame_bytes_batch' = << >>
               /\ w_pc' = "ready"
       /\ \A i \in NewlyPushed :
            /\ pushed'[i] \notin w_push_failed
            /\ \A j \in 1..Len(pushed) : pushed[j] # pushed'[i]]_vars

\* C25 witness: a push of one batch has failed after its first frame was pushed,
\* the worker has gone on, and a later batch has been pushed in full.
PushFailedThenLaterBatchPushed ==
    /\ w_pc = "ready"
    /\ frame_index_batch = << >>
    /\ Len(pushed) = 1 + batch_size
    /\ pushed[1] \in w_push_failed
    /\ \E k \in w_push_failed : \A i \in 1..Len(pushed) : pushed[i] # k
    /\ \A i \in 2..Len(pushed) : pushed[i] \notin w_push_failed

\* the send loop of the worker ends in this step
ReturnStep == w_pc = "send" /\ w_pc' # "send"

\* C26: in the Return step the worker pushes, for each position i of the batch,
\* a processed frame with the index of the i-th frame received in that batch, in
\* receive order (all of them unless a push fails, and then the first ones); all
\* frames of one batch carry the same (start_time, end_time), and that interval
\* begins no earlier than the intervals of the batches pushed before end.
ReturnEchoesBatch ==
    [][ReturnStep =>
         /\ \E n \in 0..Len(frame_index_batch) :
              pushed' = pushed \o SubSeq(frame_index_batch, 1, n)
         /\ w_push_failed' = w_push_failed => pushed' = pushed \o frame_index_batch
         /\ \A i \in NewlyPushed : pushed_times'[i] = << start_time, end_time >>
         /\ start_time <= end_time
         /\ \A j \in 1..Len(pushed_times) : pushed_times[j][2] <= start_time]_vars

\* C27: after a shutdown signal has set running to false the worker sends no
\* further READY; a transform in flight completes and its results are pushed, the
\* loop test that follows ends the loop, and the loop eventually terminates.
ShutdownStopsWorker ==
    /\ [][shutdown_requested =>
            /\ ready'[WorkerClient] <= ready[WorkerClient]
            /\ w_pc = "transform" => w_pc' \in {"transform", "send", "ready"}
            /\ w_pc = "send" => UNCHANGED w_pc \/ (Len(pushed') >= Len(pushed) /\ w_pc' = "ready")
            /\ w_pc = "ready" => w_pc' \in {"ready", "stopped"}]_vars
    /\ shutdown_requested ~> w_pc = "stopped"

\* C19: the server never pushes unsolicited frames: every step that transmits a
\* frame transmits one frame to one client and consumes one READY that was
\* received from that client, so the frames sent to a client never outnumber the
\* READY messages received from it.
TransmissionConsumesReady ==
    [][\A c \in Clients :
         Len(sent'[c]) # Len(sent[c])
            => /\ Len(sent'[c]) = Len(sent[c]) + 1
               /\ ready[c] > 0
               /\ ready'[c] = ready[c] - 1
               /\ \A d \in Clients \ {c} : sent'[d] = sent[d] /\ ready'[d] = ready[d]]_vars

\* C19 witness: a frame has been transmitted to a client, on its READY, while a
\* READY of another client that has been sent nothing is still waiting.
SentOnReadyOtherWaiting ==
    /\ last_reply.outcome = "sent"
    /\ s_pc = "drain"
    /\ Len(sent[last_reply.client]) > 0
    /\ \E d \in Clients : /\ d # last_reply.client
                          /\ ready[d] > 0
                          /\ sent[d] = << >>

----------------------------------------------------------------------------
(* Claims about the shutdown of the distributor (SpecStop).                *)

\* C28: after stop() has set running to false, both loops of the distributor
\* (handle_distribute_requests and check_inverter_output) eventually terminate,
\* also when a call raises inside an iteration.
StopTerminatesBothLoops ==
    ~running ~> (s_pc = "stopped" /\ c_pc = "stopped")

\* C28 witness: both loops have terminated, the server loop after an exception
\* ended one of its iterations when running was already false, the collector
\* loop after an exception in one of its iterations.
BothLoopsStoppedAfterErrors ==
    /\ ~running
    /\ s_pc = "stopped"
    /\ c_pc = "stopped"
    /\ << "server", FALSE >> \in raised
    /\ << "collector", TRUE >> \in raised

----------------------------------------------------------------------------
(* Claims about a distributor without workers (SpecNoWorker).              *)

\* C20: with no worker ever sending READY or returning a frame, after any number
\* of submits last_frame_sent is still -1, the buffer is empty,
\* latest_received_frame has its initial value, no tick returns True (the renderer
\* is idle or on its way to returning False, and the clock stands at 0), and the
\* capture queue holds at most 10 frames.
NothingMovesWithoutWorkers ==
    /\ last_frame_sent = -1
    /\ Keys(received_frames) = {}
    /\ latest_received_frame = InitialLatestReceived
    /\ r_pc \in {"idle", "t_elif"}
    /\ current_display_frame = 0
    /\ displayed = NoFrame
    /\ Len(frame_queue) <= 10

\* C20 witness: more frames have been submitted than the capture queue holds,
\* the queue is full, the server has drained a frame, and a tick is on its way to
\* returning False.
OverflowedWithoutWorkers ==
    /\ submit_calls > QueueMaxSize
    /\ Len(frame_queue) = QueueMaxSize
    /\ p_outcome = "replaced"
    /\ current_frame_data # NoData
    /\ r_pc = "t_elif"

----------------------------------------------------------------------------
(* Claims about the capture queue and the index counter (SpecQueue).       *)

Increasing(queue) ==
    \A i, j \in 1..Len(queue) : i < j => queue[i].frame_index < queue[j].frame_index

\* C8: add_frame_for_distribution never surfaces an error to the capture
\* producer, for every interleaving with the server's drain, a full queue at entry
\* included: no call ends by raising.
SubmitNeverRaises == p_pc # "raised" /\ p_outcome # "raised"

\* C9: a submit that finds the queue full evicts the oldest pending frame and
\* enqueues the new frame (it ends with the new frame last in the queue); the queue
\* never holds more than QueueMaxSize frames and stays in increasing index order.
SubmitOnFullReplacesOldest ==
    [][/\ (p_pc = "full" /\ p_pc' # "full")
            => /\ frame_queue # << >>
               /\ frame_queue' = Tail(frame_queue)
               /\ p_pc' = "retry"
       /\ (p_pc = "retry" /\ p_pc' # "retry")
            => /\ frame_queue' = Append(frame_queue, p_frame)
               /\ p_outcome' = "replaced"
       /\ Len(frame_queue') <= QueueMaxSize
       /\ Increasing(frame_queue')]_vars

\* C10: every submit assigns the index that follows the last one assigned: the
\* counter starts at 0 and grows by exactly one per call, whatever becomes of the
\* frame, so after n calls the counter is n and the n-th call got index n - 1.
CounterCountsSubmits ==
    /\ frame_index_counter = submit_calls
    /\ p_frame.frame_index = submit_calls - 1

\* C10 witness: a call that found the queue full and replaced the oldest frame
\* has returned.
SubmitReplacedOldest ==
    /\ p_outcome = "replaced"
    /\ p_pc = "idle"
    /\ submit_calls > QueueMaxSize

----------------------------------------------------------------------------
(* The trace log of captured frames. *)

\* the instant event log_frame_timing appends for the submit that assigned index
CaptureEvent(index) ==
    [frame_index |-> index, event_type |-> "frame_captured", event_ph |-> "i",
     times |-> << index >>]

\* C29: whenever no submit is in progress, the trace log holds, with tracing
\* enabled, exactly one instant event frame_captured(index, timestamp) for each
\* submit made so far, in the order of the calls and whether or not the call
\* found the capture queue full, and with tracing disabled it is empty.
EverySubmitLogsOneCapture ==
    p_pc = "idle" =>
        frame_timings = IF enable_trace_export
                        THEN [i \in 1..submit_calls |-> CaptureEvent(i - 1)]
                        ELSE << >>

----------------------------------------------------------------------------
(* The effect of one READY on the watermark, the current frame and the     *)
(* messages sent.                                                          *)

\* the step in which the server handles a READY of client c
ReadyHandled(c) == s_pc = "poll" /\ s_pc' = "drain" /\ ready'[c] = ready[c] - 1

\* the current frame is absent or not newer than the watermark
NothingNewToSend ==
    \/ current_frame_data = NoData
    \/ current_frame_data.frame_index <= last_frame_sent

\* nothing is sent to any client; the watermark and the current frame stay
ReadyWithoutEffect ==
    /\ sent' = sent
    /\ last_frame_sent' = last_frame_sent
    /\ current_frame_data' = current_frame_data

\* exactly the current frame is sent to client c, to no other client, and the
\* watermark becomes its index
ReadyTransmitsTo(c) ==
    /\ sent' = [sent EXCEPT ![c] = Append(@, current_frame_data.frame_index)]
    /\ last_frame_sent' = current_frame_data.frame_index
    /\ current_frame_data' = current_frame_data

----------------------------------------------------------------------------
(* The capacity rule of cleanup_old_frames (SpecBacklog).                  *)

\* the step of cleanup_old_frames that applies the capacity rule to a buffer
\* holding more than frame_buffer_size entries
CapacityStep ==
    /\ c_pc = "limit"
    /\ c_pc' = "poll"
    /\ Cardinality(Keys(received_frames)) > frame_buffer_size

\* the indices a step removes from the buffer
Evicted == Keys(received_frames) \ Keys(received_frames')

\* C32: when an ingest has made the buffer hold more than frame_buffer_size
\* entries, the capacity rule evicts exactly size - frame_buffer_size entries,
\* every evicted index is smaller than every retained index, and the entry at
\* latest_received_frame is not evicted.
CapacityEvictsSmallest ==
    [][CapacityStep =>
          /\ Keys(received_frames') \subseteq Keys(received_frames)
          /\ Cardinality(Evicted) =
                 Cardinality(Keys(received_frames)) - frame_buffer_size
          /\ \A e \in Evicted : \A k \in Keys(received_frames') : e < k
          /\ latest_received_frame \notin Evicted]_vars

\* the capacity rule has evicted index 0 (nothing was purged: the renderer has
\* not drawn yet) and the latest frame is in the full buffer
OldestEvictedLatestKept ==
    /\ c_pc = "poll"
    /\ current_display_frame = 0
    /\ 0 \notin Keys(received_frames)
    /\ Cardinality(Keys(received_frames)) = frame_buffer_size
    /\ latest_received_frame \in Keys(received_frames)

----------------------------------------------------------------------------
(* Which thread writes which of current_display_frame, received_frames and *)
(* latest_received_frame (SpecPlayout).                                    *)

\* a step of check_inverter_output or of its cleanup_old_frames
IngestStep == c_pc' # c_pc

\* a step of update_display_frame or of get_frame_to_display
PlayoutStep == r_pc' # r_pc

\* a step of add_frame_for_distribution
SubmitStep == submit_calls' # submit_calls \/ p_pc' # p_pc

\* C33: a step of the ingest leaves current_display_frame unchanged; a step of
\* update_display_frame or get_frame_to_display leaves the buffer and
\* latest_received_frame unchanged; a step of submit leaves all three unchanged.
IngestAndPlayoutWriteDisjointFields ==
    [][/\ IngestStep => UNCHANGED current_display_frame
       /\ PlayoutStep => UNCHANGED << received_frames, latest_received_frame >>
       /\ SubmitStep => UNCHANGED << current_display_frame, received_frames,
                                     latest_received_frame >>]_vars

\* the three threads have all acted: frames were submitted, ingested and purged,
\* and the renderer has advanced the clock and shown a frame
AllThreeThreadsActed ==
    /\ submit_calls > 1
    /\ latest_received_frame > 0
    /\ current_display_frame > 0
    /\ displayed # NoFrame
    /\ \A k \in Keys(received_frames) : k >= current_display_frame
    /\ Keys(received_frames) # {}

----------------------------------------------------------------------------
(* A send on the distribution socket that would block (SpecFanout).        *)

\* the last READY handled met the frame that is still the current one, and its
\* send raised zmq.Again
LastSendBlocked ==
    /\ last_reply.outcome = "again"
    /\ last_reply.frame_index = current_frame_data.frame_index

\* C35: a READY whose send would block leaves last_frame_sent, the current
\* frame and the messages sent unchanged, the frame is still newer than
\* last_frame_sent, and the server goes on to its next iteration; the next
\* READY handled while that frame is still the current one is not ignored: it
\* transmits that frame to its client and raises last_frame_sent to its index,
\* unless its send would block too.
BlockedSendKeepsFrameEligible ==
    [][\A c \in Clients :
          ReadyHandled(c) =>
              /\ last_reply'.outcome = "again" =>
                     /\ ReadyWithoutEffect
                     /\ current_frame_data'.frame_index > last_frame_sent'
                     /\ s_pc' = "drain"
                     /\ running'
              /\ LastSendBlocked =>
                     \/ ReadyTransmitsTo(c) /\ last_reply'.outcome = "sent"
                     \/ ReadyWithoutEffect /\ last_reply'.outcome = "again"]_vars

\* the send of the current frame to one client would block, the server is back
\* at the top of its loop, and a READY of the other client is waiting
SendBlockedOtherClientWaiting ==
    /\ LastSendBlocked
    /\ s_pc = "drain"
    /\ \E c \in Clients : c # last_reply.client /\ ready[c] > 0

----------------------------------------------------------------------------
(* get_frame_to_display against the collector's deletions (SpecPlayout).   *)

\* C36: get_frame_to_display, run while the collector inserts, purges and
\* evicts, never fails on a key the collector removed between the lookup of the
\* index and the read of its entry, and what it returns is a payload of the
\* buffer or none.
GetNeverFailsOnRemovedKey ==
    /\ r_pc # "error"
    /\ displayed \in {NoFrame} \cup 0..frame_index_counter

----------------------------------------------------------------------------
(* The size of the worker's batch (SpecWorker).                            *)

\* C38: the worker's pending batch never holds more than batch_size frames, and
\* the transform is invoked only with exactly batch_size payloads, whatever
\* receives, poll timeouts, transform errors and push failures came before.
BatchNeverExceedsBatchSize ==
    /\ Len(frame_index_batch) <= batch_size
    /\ Len(frame_bytes_batch) <= batch_size
    /\ w_pc = "transform" => Len(frame_bytes_batch) = batch_size

----------------------------------------------------------------------------
(* The index of the server's current frame (SpecSlot).                     *)

\* C39: the index of the current frame strictly increases whenever the
\* current frame is replaced, whatever the interleaving of submit, its
\* evict-oldest step included, with the server's drain, and in every state
\* last_frame_sent <= index of the current frame < frame_index_counter.
SlotIndexIncreases ==
    /\ [](/\ last_frame_sent <= current_frame_data.frame_index
          /\ current_frame_data.frame_index < frame_index_counter)
    /\ [][current_frame_data' # current_frame_data =>
             current_frame_data'.frame_index > current_frame_data.frame_index]_vars

\* the current frame is one that was enqueued in place of the oldest frame of a
\* full queue, an earlier frame has been sent, and frames were submitted since
SlotHoldsReplacingFrame ==
    /\ current_frame_data.frame_index >= QueueMaxSize
    /\ last_frame_sent >= 0
    /\ last_frame_sent < current_frame_data.frame_index
    /\ current_frame_data.frame_index < frame_index_counter - 1
    /\ p_outcome = "replaced"

----------------------------------------------------------------------------
(* READY messages as credits (SpecWorker).                                 *)

\* a step in which a frame is transmitted to the worker
TransmittedToWorker == sent'[WorkerClient] # sent[WorkerClient]

\* the worker has a full batch and is in, or about to enter, its transform or
\* the push of the results
WorkerBusy == w_pc \in {"transform", "send"}

\* C37: a frame is transmitted to the worker only while the worker awaits one:
\* none is sent while it is executing its transform, so a READY the worker
\* sent before it received its last frame is not used later as a credit.
FrameSentOnlyToAwaitingWorker ==
    [][TransmittedToWorker => ~WorkerBusy]_vars

----------------------------------------------------------------------------
(* Every current frame is eventually covered by the watermark (SpecCover). *)

\* C40: with a worker that keeps announcing READY and no send blocking, every
\* frame that becomes the server's current frame is eventually covered by the
\* watermark: last_frame_sent >= its index, the frame or a newer one having
\* been transmitted; under weak fairness of the server loop and the worker loop.
SlotEventuallyCovered ==
    \A i \in 0..MaxFrames :
        (current_frame_data.frame_index = i) ~> (last_frame_sent >= i)

\* the watermark covers a frame that was the current frame and was never
\* transmitted: a newer one was transmitted to the worker in its place
CoveredByNewerFrame ==
    /\ last_frame_sent \in Range(sent[WorkerClient])
    /\ last_frame_sent = current_frame_data.frame_index
    /\ frame_queue = << >>
    /\ \E i \in 0..last_frame_sent : i \notin Range(sent[WorkerClient])

----------------------------------------------------------------------------
(* The prompt on its way from submit to the transform (SpecPrompt).        *)

\* the last frame of the worker's pending batch
LastOfBatch == frame_index_batch[Len(frame_index_batch)]

\* C31: the prompt handed to the worker's transform is the prompt that was
\* submitted with the last frame of the batch, and a READY handled while the
\* current frame is newer than the watermark transmits that frame with its
\* prompt, an empty one if the frame was submitted with the prompt omitted.
PromptRoutedUnchanged ==
    /\ [](w_pc = "transform" =>
            w_prompt = IF prompt_of[LastOfBatch] = NoPrompt THEN ""
                       ELSE prompt_of[LastOfBatch])
    /\ [][(ReadyHandled(WorkerClient) /\ ~NothingNewToSend) =>
             /\ ReadyTransmitsTo(WorkerClient)
             /\ sent_prompts'[WorkerClient] =
                   Append(sent_prompts[WorkerClient],
                          IF current_frame_data.prompt = NoPrompt THEN ""
                          ELSE current_frame_data.prompt)]_vars

----------------------------------------------------------------------------
(* How the worker variants read a response (SpecVariants).                 *)

\* C34: each worker variant reads a response as the three parts the server
\* sent: whenever it is about to announce READY it has read whole responses
\* only, so its next receive starts at the first part of a response, and the
\* part it last read as the index is the index part of a response.
VariantsReadThreeParts ==
    /\ w_taken <= Len(sent[WorkerClient])
    /\ inv_pc = "announce" => inv_pos % 3 = 0
    /\ inv_frame_index.kind \in {"none", "index"}

====
